---- MODULE Spec2Model ----
(***************************************************************************)
(* Model of deepeval-demo/deepeval_server.py: the POST /eval handler       *)
(* (evaluate_llm_response), the MetricEvaluator it drives and the          *)
(* construction of the evaluator from the process environment.             *)
(*                                                                         *)
(* Python values are represented as follows.                               *)
(*   Optional[T]   : <<>> for None, <<v>> for a present value v.           *)
(*   str           : a TLA+ string; concatenation is \o.                   *)
(*   List[T]       : a sequence.                                           *)
(*   dict          : a function whose domain is the set of keys present.   *)
(*   float         : an IEEE-754 binary64 value in [0, 1], held as the two *)
(*                   limbs <<hi, lo>> of the integer hi * 2^28 + lo, which *)
(*                   is the value scaled by 2^56.                          *)
(***************************************************************************)
EXTENDS Integers, Sequences, FiniteSets, TLC

VARIABLES
    pc,               \* position of the handler: idle | gated | loop | done | rejected | failed
                      \* (call | returned for a direct call of create_test_case)
    environ,          \* os.environ, the process-wide configuration
    installed,        \* the deepeval installed in this process: whether deepeval.metrics
                      \* exports PIILeakageMetric, and whether DeepEvalBaseLLM declares
                      \* load_model, generate, a_generate and get_model_name abstract
    req,              \* the EvalRequest being handled (for a direct call of a
                      \* method, the arguments of the call)
    metrics_to_eval,  \* the resolved metric list
    evaluator,        \* Optional: the MetricEvaluator of this request
    results,          \* the list of MetricResult built by the loop
    dispatched,       \* history: one record per evaluator.evaluate call of this request
    answers,          \* the answers the judge has given in this request, in call order
    last_case,        \* Optional: the case built by the latest create_test_case call
    response,         \* Optional: the EvalResponse returned
    status,           \* HTTP status of the outcome, 0 while none
    detail,           \* Optional: the detail of the HTTPException raised
    logged            \* Optional: the exception the handler's outer except clause
                      \* caught and gave to logger.exception (for a direct call of a
                      \* method, the exception the call raised)

vars == <<pc, environ, installed, req, metrics_to_eval, evaluator, results,
          dispatched, answers, last_case, response, status, detail, logged>>

\* ------------------------------------------------------------------ bounds
\* Longest metric list a request carries in its metric field.
MaxMetrics == 2
\* Longest messages list given to create_test_case.
MaxMessages == 2
\* Number of judge calls per request that are answered freely; later calls
\* of the same request repeat these answers in order.
MaxJudgeAnswers == 2

\* ------------------------------------------------------- Python primitives
None == <<>>
Some(v) == <<v>>
IsNone(o) == o = <<>>
NotNone(o) == o # <<>>
Val(o) == o[1]

\* `not s` for an Optional[str]
FalsyStr(o) == IsNone(o) \/ Val(o) = ""
\* `not l` for an Optional[List]
FalsyList(o) == IsNone(o) \/ Len(Val(o)) = 0
\* `a or b` for an Optional[str] a
OrStr(o, default) == IF FalsyStr(o) THEN default ELSE Val(o)
\* `a or b` for an Optional[List] a
OrList(o, default) == IF FalsyList(o) THEN default ELSE Val(o)
\* dict.get(key, default)
DictGet(d, key, default) == IF key \in DOMAIN d THEN d[key] ELSE default

\* str.lower() on the strings that occur as metric names and provider names.
Lower(s) ==
    CASE s = "ALL" -> "all"
      [] s = "Faithfulness" -> "faithfulness"
      [] s = "Conversation_Completeness" -> "conversation_completeness"
      [] s = "Groq" -> "groq"
      [] s = " Groq " -> " groq "
      [] s = "OpenAI" -> "openai"
      [] OTHER -> s

\* str.strip() on the provider names that occur.
Strip(s) ==
    CASE s = " groq " -> "groq"
      [] OTHER -> s

RECURSIVE JoinQuoted(_)
\* the inside of str(list_of_str): 'a', 'b', 'c'
JoinQuoted(l) ==
    IF Len(l) = 0 THEN ""
    ELSE IF Len(l) = 1 THEN "'" \o l[1] \o "'"
    ELSE "'" \o l[1] \o "', " \o JoinQuoted(Tail(l))

\* str(list_of_str)
StrList(l) == "[" \o JoinQuoted(l) \o "]"

\* list.remove(x): drops the first occurrence of x (x is known to occur)
RECURSIVE ListRemove(_, _)
ListRemove(l, x) ==
    IF Len(l) = 0 THEN l
    ELSE IF l[1] = x THEN Tail(l)
    ELSE <<l[1]>> \o ListRemove(Tail(l), x)

Contains(l, x) == \E k \in 1..Len(l) : l[k] = x

\* --------------------------------------------------------- binary64 floats
\* One limb: a float is <<hi, lo>> = (hi * 2^28 + lo) / 2^56.
Limb == 2^28
F_0_0 == <<0, 0>>
F_1_0 == <<268435456, 0>>
F_0_5 == <<134217728, 0>>
F_0_9 == <<241591910, 107374184>>   \* the double nearest 0.9
F_0_1 == <<26843545, 161061274>>    \* the double nearest 0.1

\* Spacing of the doubles in the binade of the scaled value <<hi, lo>>:
\* 53 significant bits, so 8 from 2^55 up, 4 from 2^54, 2 from 2^53, else 1.
Quantum(hi) ==
    IF hi >= 134217728 THEN 8
    ELSE IF hi >= 67108864 THEN 4
    ELSE IF hi >= 33554432 THEN 2
    ELSE 1

\* Round an exact scaled value to the nearest double, ties to even.
RoundNearestEven(x) ==
    LET q == Quantum(x[1])
        rem == x[2] % q
        base == x[2] - rem
        up == (2 * rem > q) \/ (2 * rem = q /\ (base \div q) % 2 = 1)
        lo == IF up THEN base + q ELSE base
    IN  IF lo = Limb THEN <<x[1] + 1, 0>> ELSE <<x[1], lo>>

\* The exact difference 1 - x of a scaled value x in [0, 1].
ExactOneMinus(x) ==
    IF x[2] = 0 THEN <<Limb - x[1], 0>> ELSE <<Limb - x[1] - 1, Limb - x[2]>>

\* Python's `1.0 - x` on floats.
FloatOneMinus(x) == RoundNearestEven(ExactOneMinus(x))

\* ------------------------------------------------------ the metric registry
\* MetricEvaluator.SUPPORTED_METRICS: the keys, in insertion order.
SUPPORTED_METRICS ==
    <<"faithfulness", "answer_relevancy", "contextual_precision",
      "contextual_recall", "conversation_completeness", "hallucination",
      "pii_leakage">>

\* MetricEvaluator.validate_metric
validate_metric(metric_name) == Contains(SUPPORTED_METRICS, Lower(metric_name))

\* ------------------------------------------------ construction of evaluator
PlaceholderKeys ==
    {"your-openai-api-key-here", "your-groq-api-key-here",
     "your-azure-openai-api-key-here"}

\* Outcome of a call that returns a value or raises an exception; environ is
\* the process environment it leaves.
Returned(v, env) ==
    [raised |-> FALSE, exc |-> "", msg |-> "", value |-> Some(v), environ |-> env]
Raised(exc, m, env) ==
    [raised |-> TRUE, exc |-> exc, msg |-> m, value |-> None, environ |-> env]

\* GroqModel defines __init__ only: the load_model, generate, a_generate and
\* get_model_name written for it are in the body of AzureOpenAIModel. It can
\* be instantiated only if DeepEvalBaseLLM declares none of them abstract.
GroqModel(api_key, model) ==
    [kind |-> "GroqModel", api_key |-> Some(api_key), model_name |-> model,
     endpoint |-> None, api_version |-> None]

AzureOpenAIModel(api_key, endpoint, deployment_name, api_version) ==
    [kind |-> "AzureOpenAIModel", api_key |-> Some(api_key),
     model_name |-> deployment_name, endpoint |-> Some(endpoint),
     api_version |-> Some(api_version)]

\* deepeval's GPTModel takes its key from OPENAI_API_KEY in the environment.
GPTModel(model, env) ==
    [kind |-> "GPTModel", api_key |-> env["OPENAI_API_KEY"], model_name |-> model,
     endpoint |-> None, api_version |-> None]

\* The methods each adapter class has besides those DeepEvalBaseLLM leaves to
\* its subclasses. The second load_model and generate in the body of
\* AzureOpenAIModel replace its first ones; GPTModel is deepeval's own adapter.
ClassMethods(kind) ==
    CASE kind = "GroqModel" -> {"__init__"}
      [] kind = "AzureOpenAIModel" ->
             {"__init__", "load_model", "generate", "a_generate", "get_model_name",
              "should_use_azure_openai"}
      [] OTHER -> {"__init__", "load_model", "generate", "a_generate", "get_model_name"}

\* MetricEvaluator.__init__ with the key written to OPENAI_API_KEY before the
\* adapter of any provider is built, not on the OpenAI path alone.
MetricEvaluatorInitExportingKey(env, lib, api_key, model_name, use_groq, use_azure, azure_endpoint, azure_deployment, azure_api_version) ==
    IF FalsyStr(api_key) \/ Val(api_key) \in PlaceholderKeys
    THEN Raised("ValueError", "Valid API key is required", env)
    ELSE LET env2 == [env EXCEPT !["OPENAI_API_KEY"] = api_key]
         IN  IF use_azure
             THEN IF FalsyStr(azure_endpoint) \/ FalsyStr(azure_deployment)
                  THEN Raised("ValueError", "azure_endpoint and azure_deployment are required when using Azure OpenAI", env2)
                  ELSE Returned([model_name |-> model_name, use_groq |-> use_groq,
                                 use_azure |-> use_azure,
                                 model |-> AzureOpenAIModel(Val(api_key), Val(azure_endpoint),
                                                            Val(azure_deployment), azure_api_version)],
                                env2)
             ELSE IF use_groq
             THEN IF lib.abstract_base
                  THEN Raised("TypeError", "Can't instantiate abstract class GroqModel", env2)
                  ELSE Returned([model_name |-> model_name, use_groq |-> use_groq,
                                 use_azure |-> use_azure,
                                 model |-> GroqModel(Val(api_key), model_name)], env2)
             ELSE Returned([model_name |-> model_name, use_groq |-> use_groq,
                            use_azure |-> use_azure,
                            model |-> GPTModel(model_name, env2)], env2)

\* MetricEvaluator.__init__; api_key, azure_endpoint, azure_deployment are Optional[str].
MetricEvaluatorInit(env, lib, api_key, model_name, use_groq, use_azure, azure_endpoint, azure_deployment, azure_api_version) ==
    IF FalsyStr(api_key) \/ Val(api_key) \in PlaceholderKeys
    THEN Raised("ValueError", "Valid API key is required", env)
    ELSE IF use_azure
    THEN IF FalsyStr(azure_endpoint) \/ FalsyStr(azure_deployment)
         THEN Raised("ValueError", "azure_endpoint and azure_deployment are required when using Azure OpenAI", env)
         ELSE Returned([model_name |-> model_name, use_groq |-> use_groq,
                        use_azure |-> use_azure,
                        model |-> AzureOpenAIModel(Val(api_key), Val(azure_endpoint),
                                                   Val(azure_deployment), azure_api_version)],
                       env)
    ELSE IF use_groq
    THEN IF lib.abstract_base
         THEN Raised("TypeError", "Can't instantiate abstract class GroqModel", env)
         ELSE Returned([model_name |-> model_name, use_groq |-> use_groq,
                        use_azure |-> use_azure,
                        model |-> GroqModel(Val(api_key), model_name)], env)
    ELSE LET env2 == [env EXCEPT !["OPENAI_API_KEY"] = api_key]
         IN  Returned([model_name |-> model_name, use_groq |-> use_groq,
                       use_azure |-> use_azure,
                       model |-> GPTModel(model_name, env2)], env2)

\* os.getenv(name, default)
GetEnv(env, name, default) == IF IsNone(env[name]) THEN default ELSE Val(env[name])

\* str.startswith("gpt-") on the model names that occur
StartsWithGpt(s) == s \in {"gpt-4o", "gpt-4o-mini"}

\* init_evaluator_from_env without its own checks of the environment: every
\* value read is handed to MetricEvaluator as it is.
InitEvaluatorFromEnvUnchecked(env, lib) ==
    LET llm_provider == Strip(Lower(GetEnv(env, "LLM_PROVIDER", "groq")))
        eval_model == GetEnv(env, "EVAL_MODEL", "llama-3.3-70b-versatile")
    IN  IF llm_provider = "azure-openai"
        THEN MetricEvaluatorInit(env, lib, env["AZURE_OPENAI_API_KEY"], eval_model, FALSE, TRUE,
                                 env["AZURE_OPENAI_API_ENDPOINT"],
                                 env["AZURE_OPENAI_DEPLOYMENT_NAME"],
                                 GetEnv(env, "AZURE_OPENAI_API_VERSION", "2024-02-15-preview"))
        ELSE IF llm_provider = "groq"
        THEN MetricEvaluatorInit(env, lib, env["GROQ_API_KEY"], eval_model, TRUE, FALSE,
                                 None, None, "2024-02-15-preview")
        ELSE MetricEvaluatorInit(env, lib, env["OPENAI_API_KEY"],
                                 IF StartsWithGpt(eval_model) THEN eval_model ELSE "gpt-4o-mini",
                                 FALSE, FALSE, None, None, "2024-02-15-preview")

\* init_evaluator_from_env
init_evaluator_from_env(env, lib) ==
    LET llm_provider == Strip(Lower(GetEnv(env, "LLM_PROVIDER", "groq")))
        eval_model == GetEnv(env, "EVAL_MODEL", "llama-3.3-70b-versatile")
    IN  IF llm_provider = "azure-openai"
        THEN LET api_key == env["AZURE_OPENAI_API_KEY"]
                 endpoint == env["AZURE_OPENAI_API_ENDPOINT"]
                 deployment == env["AZURE_OPENAI_DEPLOYMENT_NAME"]
                 api_version == GetEnv(env, "AZURE_OPENAI_API_VERSION", "2024-02-15-preview")
             IN  IF FalsyStr(api_key)
                 THEN Raised("ValueError", "AZURE_OPENAI_API_KEY environment variable is required when using Azure OpenAI", env)
                 ELSE IF FalsyStr(endpoint)
                 THEN Raised("ValueError", "AZURE_OPENAI_API_ENDPOINT environment variable is required when using Azure OpenAI", env)
                 ELSE IF FalsyStr(deployment)
                 THEN Raised("ValueError", "AZURE_OPENAI_DEPLOYMENT_NAME environment variable is required when using Azure OpenAI", env)
                 ELSE MetricEvaluatorInit(env, lib, api_key, eval_model, FALSE, TRUE,
                                          endpoint, deployment, api_version)
        ELSE IF llm_provider = "groq"
        THEN LET api_key == env["GROQ_API_KEY"]
             IN  IF FalsyStr(api_key)
                 THEN Raised("ValueError", "GROQ_API_KEY environment variable is required when using Groq", env)
                 ELSE MetricEvaluatorInit(env, lib, api_key, eval_model, TRUE, FALSE,
                                          None, None, "2024-02-15-preview")
        ELSE IF llm_provider = "openai"
        THEN LET api_key == env["OPENAI_API_KEY"]
                 actual_model == IF StartsWithGpt(eval_model) THEN eval_model ELSE "gpt-4o-mini"
             IN  IF FalsyStr(api_key)
                 THEN Raised("ValueError", "OPENAI_API_KEY environment variable is required when using OpenAI", env)
                 ELSE MetricEvaluatorInit(env, lib, api_key, actual_model, FALSE, FALSE,
                                          None, None, "2024-02-15-preview")
        ELSE Raised("ValueError", "Unsupported LLM_PROVIDER: " \o llm_provider
                    \o ". Supported values: 'groq', 'openai', 'azure-openai'", env)

\* --------------------------------------------------- the evaluation case
\* Turn with the role of a message without role left empty.
TurnWithoutDefaultRole(msg) ==
    [role |-> DictGet(msg, "role", ""), content |-> DictGet(msg, "content", "")]

\* One turn of a ConversationalTestCase, from one element of messages.
Turn(msg) == [role |-> DictGet(msg, "role", "user"), content |-> DictGet(msg, "content", "")]

\* MetricEvaluator.create_test_case. A ConversationalTestCase carries turns
\* only; an LLMTestCase carries the four fields given here and a context
\* attribute that deepeval initialises to None.
create_test_case(query, context, output, expected_output, messages) ==
    IF NotNone(messages)
    THEN [kind |-> "ConversationalTestCase",
          turns |-> [k \in 1..Len(Val(messages)) |-> Turn(Val(messages)[k])],
          input |-> None, actual_output |-> None, retrieval_context |-> None,
          expected_output |-> None, context |-> None]
    ELSE [kind |-> "LLMTestCase",
          turns |-> <<>>,
          input |-> Some(OrStr(query, "")),
          actual_output |-> output,
          retrieval_context |-> Some(OrList(context, <<>>)),
          expected_output |-> expected_output,
          context |-> None]

\* ------------------------------------------------------ the metric dispatcher
\* ValidateFields with the context check of the contextual metrics ahead of
\* their expected_output check.
ValidateFieldsContextFirst(metric_name, query, context, expected_output, messages) ==
    IF ~validate_metric(metric_name)
    THEN Some("Unsupported metric: " \o metric_name \o ". Supported: " \o StrList(SUPPORTED_METRICS))
    ELSE IF metric_name \in {"contextual_precision", "contextual_recall"} /\ FalsyList(context)
    THEN Some(metric_name \o " requires 'context' field (list of retrieved passages)")
    ELSE IF metric_name \in {"contextual_precision", "contextual_recall"} /\ FalsyStr(expected_output)
    THEN Some(metric_name \o " requires 'expected_output' field")
    ELSE IF metric_name = "answer_relevancy" /\ FalsyStr(query)
    THEN Some("answer_relevancy requires 'query' field (the user's question)")
    ELSE IF metric_name = "conversation_completeness" /\ FalsyList(messages)
    THEN Some("conversation_completeness requires 'messages' field (list of conversation turns with role and content)")
    ELSE IF metric_name = "hallucination" /\ FalsyList(context)
    THEN Some("hallucination requires 'context' field (list of source passages to check against)")
    ELSE None

\* ValidateFields without the validate_metric check at its head.
ValidateFieldsOnly(metric_name, query, context, expected_output, messages) ==
    IF metric_name \in {"contextual_precision", "contextual_recall"} /\ FalsyStr(expected_output)
    THEN Some(metric_name \o " requires 'expected_output' field")
    ELSE IF metric_name \in {"contextual_precision", "contextual_recall"} /\ FalsyList(context)
    THEN Some(metric_name \o " requires 'context' field (list of retrieved passages)")
    ELSE IF metric_name = "answer_relevancy" /\ FalsyStr(query)
    THEN Some("answer_relevancy requires 'query' field (the user's question)")
    ELSE IF metric_name = "conversation_completeness" /\ FalsyList(messages)
    THEN Some("conversation_completeness requires 'messages' field (list of conversation turns with role and content)")
    ELSE IF metric_name = "hallucination" /\ FalsyList(context)
    THEN Some("hallucination requires 'context' field (list of source passages to check against)")
    ELSE None

\* ValidateFields asking `is None` of query, messages and the context of
\* hallucination, where the code asks `not`.
ValidateFieldsIfNone(metric_name, query, context, expected_output, messages) ==
    IF ~validate_metric(metric_name)
    THEN Some("Unsupported metric: " \o metric_name \o ". Supported: " \o StrList(SUPPORTED_METRICS))
    ELSE IF metric_name \in {"contextual_precision", "contextual_recall"} /\ FalsyStr(expected_output)
    THEN Some(metric_name \o " requires 'expected_output' field")
    ELSE IF metric_name \in {"contextual_precision", "contextual_recall"} /\ FalsyList(context)
    THEN Some(metric_name \o " requires 'context' field (list of retrieved passages)")
    ELSE IF metric_name = "answer_relevancy" /\ IsNone(query)
    THEN Some("answer_relevancy requires 'query' field (the user's question)")
    ELSE IF metric_name = "conversation_completeness" /\ IsNone(messages)
    THEN Some("conversation_completeness requires 'messages' field (list of conversation turns with role and content)")
    ELSE IF metric_name = "hallucination" /\ IsNone(context)
    THEN Some("hallucination requires 'context' field (list of source passages to check against)")
    ELSE None

\* The per-metric field validation of MetricEvaluator.evaluate, on the
\* lower-cased metric name: None, or the message of the ValueError raised.
ValidateFields(metric_name, query, context, expected_output, messages) ==
    IF ~validate_metric(metric_name)
    THEN Some("Unsupported metric: " \o metric_name \o ". Supported: " \o StrList(SUPPORTED_METRICS))
    ELSE IF metric_name \in {"contextual_precision", "contextual_recall"} /\ FalsyStr(expected_output)
    THEN Some(metric_name \o " requires 'expected_output' field")
    ELSE IF metric_name \in {"contextual_precision", "contextual_recall"} /\ FalsyList(context)
    THEN Some(metric_name \o " requires 'context' field (list of retrieved passages)")
    ELSE IF metric_name = "answer_relevancy" /\ FalsyStr(query)
    THEN Some("answer_relevancy requires 'query' field (the user's question)")
    ELSE IF metric_name = "conversation_completeness" /\ FalsyList(messages)
    THEN Some("conversation_completeness requires 'messages' field (list of conversation turns with role and content)")
    ELSE IF metric_name = "hallucination" /\ FalsyList(context)
    THEN Some("hallucination requires 'context' field (list of source passages to check against)")
    ELSE None

\* The explanation each evaluate_<metric> falls back to when metric.reason is empty.
DefaultExplanation(metric_name) ==
    CASE metric_name = "faithfulness" -> "Faithfulness (DeepEval core)."
      [] metric_name = "answer_relevancy" -> "Answer Relevancy (DeepEval core)."
      [] metric_name = "contextual_precision" -> "Contextual Precision (DeepEval core)."
      [] metric_name = "contextual_recall" -> "Contextual Recall (DeepEval core)."
      [] metric_name = "conversation_completeness" -> "Conversation Completeness (DeepEval core)."
      [] metric_name = "hallucination" -> "Hallucination (DeepEval core; lower is better, 0 = none)."
      [] OTHER -> "PII leakage score (lower is better: 0.0 = no PII detected, 1.0 = PII found)."

\* evaluate_hallucination's compatibility step: context is set from
\* retrieval_context when the case has none.
BackfillContext(test_case) ==
    IF IsNone(test_case.context) /\ NotNone(test_case.retrieval_context)
    THEN [test_case EXCEPT !.context = test_case.retrieval_context]
    ELSE test_case

\* CaseMeasured without the compatibility step of evaluate_hallucination.
CaseMeasuredWithoutBackfill(metric_name, test_case) == test_case

\* The case the judge measures for a metric: the case as built, but for
\* hallucination, whose context the compatibility step has filled (context is
\* a declared attribute of LLMTestCase, so that the assignment goes through).
CaseMeasured(metric_name, test_case) ==
    IF metric_name = "hallucination" THEN BackfillContext(test_case) ELSE test_case

\* ReportedScore with the inversion of pii_leakage applied a second time.
ReportedScoreInvertedTwice(metric_name, raw_score) ==
    IF metric_name = "pii_leakage" THEN FloatOneMinus(FloatOneMinus(raw_score)) ELSE raw_score

\* The score evaluate_<metric> returns for the judge's raw score.
ReportedScore(metric_name, raw_score) ==
    IF metric_name = "pii_leakage" THEN FloatOneMinus(raw_score) ELSE raw_score

\* Placeholders of the history records for "no case built" and "judge not called".
NoCase == create_test_case(None, None, None, None, Some(<<>>))

NoAnswer == [kind |-> "none", raw |-> F_0_0, reason |-> None, msg |-> ""]

\* What one call of evaluator.evaluate does. `answer` is what the judge's
\* measure does if it is called: [kind: score | ValueError | Exception, raw,
\* reason, msg]. `pii_available` tells whether PIILeakageMetric can be imported.
\* The result says how the call ended (kind: ok | ValueError | Exception),
\* whether the case was built (built_case: as create_test_case returned it),
\* whether measure was called, and on which case (test_case).
Evaluate(metric_name_arg, query, context, output, expected_output, messages, pii_available, answer) ==
    LET metric_name == Lower(metric_name_arg)
        invalid == ValidateFields(metric_name, query, context, expected_output, messages)
        test_case == create_test_case(query, context, output, expected_output, messages)
    IN  IF NotNone(invalid)
        THEN [kind |-> "ValueError", msg |-> Val(invalid), score |-> None,
              explanation |-> None, built |-> FALSE, judged |-> FALSE,
              built_case |-> NoCase, test_case |-> NoCase, answer |-> NoAnswer]
        ELSE IF ~Contains(SUPPORTED_METRICS, metric_name)
        THEN [kind |-> "ValueError", msg |-> "Metric " \o metric_name \o " is not implemented yet",
              score |-> None, explanation |-> None, built |-> TRUE, judged |-> FALSE,
              built_case |-> test_case, test_case |-> test_case, answer |-> NoAnswer]
        ELSE IF metric_name = "pii_leakage" /\ ~pii_available
        THEN [kind |-> "ValueError",
              msg |-> "PIILeakageMetric requires deepeval >= 1.0.0. Please upgrade: pip install --upgrade deepeval",
              score |-> None, explanation |-> None, built |-> TRUE, judged |-> FALSE,
              built_case |-> test_case, test_case |-> test_case, answer |-> NoAnswer]
        ELSE IF answer.kind = "score"
        THEN [kind |-> "ok", msg |-> "",
              score |-> Some(ReportedScore(metric_name, answer.raw)),
              explanation |-> Some(OrStr(answer.reason, DefaultExplanation(metric_name))),
              built |-> TRUE, judged |-> TRUE, built_case |-> test_case,
              test_case |-> CaseMeasured(metric_name, test_case), answer |-> answer]
        ELSE [kind |-> answer.kind, msg |-> answer.msg, score |-> None,
              explanation |-> None, built |-> TRUE, judged |-> TRUE,
              built_case |-> test_case,
              test_case |-> CaseMeasured(metric_name, test_case), answer |-> answer]

\* ------------------------------------------------------ the batch orchestrator
\* The metric field of a request: absent, a string, or a list of strings.
MetricNone == [kind |-> "none", s |-> "", l |-> <<>>]
MetricStr(s) == [kind |-> "str", s |-> s, l |-> <<>>]
MetricList(l) == [kind |-> "list", s |-> "", l |-> l]

\* MetricParam without the default: the metric field as the request gave it.
MetricParamAsGiven(metric) == metric

\* `req.metric or "faithfulness"`
MetricParam(metric) ==
    IF metric.kind = "none" \/ (metric.kind = "str" /\ metric.s = "")
       \/ (metric.kind = "list" /\ Len(metric.l) = 0)
    THEN MetricStr("faithfulness")
    ELSE metric

RECURSIVE Dedup(_)
\* l without the repetitions of its elements
Dedup(l) ==
    IF Len(l) = 0 THEN l
    ELSE IF Contains(SubSeq(l, 1, Len(l) - 1), l[Len(l)])
    THEN Dedup(SubSeq(l, 1, Len(l) - 1))
    ELSE Append(Dedup(SubSeq(l, 1, Len(l) - 1)), l[Len(l)])

\* ResolveMetrics with a metric list stripped of its repetitions.
ResolveMetricsDedup(metric, messages) ==
    LET metric_param == MetricParam(metric)
    IN  IF metric_param.kind = "str"
        THEN IF Lower(metric_param.s) = "all"
             THEN IF FalsyList(messages) /\ Contains(SUPPORTED_METRICS, "conversation_completeness")
                  THEN ListRemove(SUPPORTED_METRICS, "conversation_completeness")
                  ELSE SUPPORTED_METRICS
             ELSE <<metric_param.s>>
        ELSE Dedup(metric_param.l)

\* ResolveMetrics with `req.messages is None` in place of `not req.messages`.
ResolveMetricsIfMessagesNone(metric, messages) ==
    LET metric_param == MetricParam(metric)
    IN  IF metric_param.kind = "str"
        THEN IF Lower(metric_param.s) = "all"
             THEN IF IsNone(messages) /\ Contains(SUPPORTED_METRICS, "conversation_completeness")
                  THEN ListRemove(SUPPORTED_METRICS, "conversation_completeness")
                  ELSE SUPPORTED_METRICS
             ELSE <<metric_param.s>>
        ELSE metric_param.l

\* The conversion of the metric parameter to metrics_to_eval.
ResolveMetrics(metric, messages) ==
    LET metric_param == MetricParam(metric)
    IN  IF metric_param.kind = "str"
        THEN IF Lower(metric_param.s) = "all"
             THEN IF FalsyList(messages) /\ Contains(SUPPORTED_METRICS, "conversation_completeness")
                  THEN ListRemove(SUPPORTED_METRICS, "conversation_completeness")
                  ELSE SUPPORTED_METRICS
             ELSE <<metric_param.s>>
        ELSE metric_param.l

\* The minimal-field check of one metric: None, or the detail of the 400 raised.
GateOne(metric_name, output, messages) ==
    LET metric_name_lower == Lower(metric_name)
    IN  IF metric_name_lower = "conversation_completeness"
        THEN IF FalsyList(messages)
             THEN Some("messages field is required for conversation_completeness metric")
             ELSE None
        ELSE IF FalsyStr(output)
             THEN Some("output field is required for " \o metric_name_lower \o " metric")
             ELSE None

\* Gate looking at the first metric only.
GateFirstOnly(metrics, output, messages) ==
    IF Len(metrics) = 0 THEN None ELSE GateOne(metrics[1], output, messages)

\* The validation loop over metrics_to_eval: the first 400 raised, if any.
RECURSIVE Gate(_, _, _)
Gate(metrics, output, messages) ==
    IF Len(metrics) = 0 THEN None
    ELSE IF NotNone(GateOne(metrics[1], output, messages))
    THEN GateOne(metrics[1], output, messages)
    ELSE Gate(Tail(metrics), output, messages)

\* MetricResultOf with the error left out of the `except Exception` branch.
MetricResultDroppingError(metric_name, e) ==
    IF e.kind = "ok"
    THEN [metric_name |-> metric_name, score |-> e.score,
          explanation |-> e.explanation, error |-> None]
    ELSE IF e.kind = "ValueError"
    THEN [metric_name |-> metric_name, score |-> None, explanation |-> None,
          error |-> Some(e.msg)]
    ELSE [metric_name |-> metric_name, score |-> None, explanation |-> None,
          error |-> None]

\* The MetricResult appended for one metric, from how evaluate ended.
MetricResultOf(metric_name, e) ==
    IF e.kind = "ok"
    THEN [metric_name |-> metric_name, score |-> e.score,
          explanation |-> e.explanation, error |-> None]
    ELSE IF e.kind = "ValueError"
    THEN [metric_name |-> metric_name, score |-> None, explanation |-> None,
          error |-> Some(e.msg)]
    ELSE [metric_name |-> metric_name, score |-> None, explanation |-> None,
          error |-> Some("Evaluation failed: " \o e.msg)]

\* Successful written as `if result.score:`, which a score of 0.0 fails.
SuccessfulIfTruthy(result) == NotNone(result.score) /\ Val(result.score) # F_0_0

\* `result.score is not None`
Successful(result) == NotNone(result.score)

\* The loop that fills the legacy fields of `resp` from the results still to
\* be looked at: it stops at the first successful one.
RECURSIVE PopulateLegacy(_, _)
PopulateLegacy(resp, rest) ==
    IF Len(rest) = 0 THEN resp
    ELSE IF Successful(rest[1])
    THEN [resp EXCEPT !.metric_name = Some(rest[1].metric_name),
                      !.score = rest[1].score,
                      !.explanation = rest[1].explanation,
                      !.error = rest[1].error]
    ELSE PopulateLegacy(resp, Tail(rest))

\* BuildResponse with the legacy error taken from the first result when no
\* result is successful.
BuildResponseReportingFailure(rs) ==
    LET resp == PopulateLegacy([results |-> rs, metric_name |-> None, score |-> None,
                                explanation |-> None, error |-> None], rs)
    IN  IF Len(rs) > 0 /\ \A k \in 1..Len(rs) : ~Successful(rs[k])
        THEN [resp EXCEPT !.error = rs[1].error]
        ELSE resp

\* The EvalResponse: results, and the legacy fields from the first successful result.
BuildResponse(rs) ==
    PopulateLegacy([results |-> rs, metric_name |-> None, score |-> None,
                    explanation |-> None, error |-> None], rs)

\* ------------------------------------------------------------------ inputs
RECURSIVE SeqsUpTo(_, _)
\* All sequences over S of length at most n.
SeqsUpTo(S, n) ==
    IF n = 0 THEN {<<>>}
    ELSE LET shorter == SeqsUpTo(S, n - 1)
         IN  shorter \cup {Append(q, x) : q \in shorter, x \in S}

Queries == {None, Some(""), Some("What is Selenium?")}
Contexts == {None, Some(<<>>), Some(<<"Selenium is a web automation framework.">>)}
Outputs == {None, Some(""), Some("Selenium is a framework.")}
ExpectedOutputs == {None, Some(""), Some("A web automation framework.")}
Providers == {None, Some("openai"), Some("groq")}

\* Elements of messages: with both keys, without role, without content.
MessageDicts ==
    {[role |-> "assistant", content |-> "hi"], [content |-> "there"], [role |-> "system"]}
\* The messages of the requests handled.
RequestMessages == {None, Some(<<>>), Some(<<[content |-> "there"]>>)}

\* Names given in metric lists, and names given as a single string.
ListNames == {"pii_leakage", "contextual_precision", "conversation_completeness", "nonsense"}
StringNames ==
    {"", "all", "ALL", "faithfulness", "Faithfulness", "answer_relevancy",
     "contextual_precision", "contextual_recall", "conversation_completeness",
     "Conversation_Completeness", "hallucination", "pii_leakage", "nonsense"}
MetricFields ==
    {MetricNone} \cup {MetricStr(s) : s \in StringNames}
        \cup {MetricList(l) : l \in SeqsUpTo(ListNames, MaxMetrics)}

\* The query of the requests handled: the handler does not read it and
\* passes it on to evaluate, whose direct calls take it from Queries.
RequestQueries == {None, Some("What is Selenium?")}
\* The requests handled. The field provider is varied in the requests sent
\* under every provider configuration.
Requests ==
    [query : RequestQueries, context : Contexts, output : Outputs,
     expected_output : ExpectedOutputs, messages : RequestMessages,
     metric : MetricFields, provider : {None}]

\* What the judge's measure may do when called.
Score(raw, reason) == [kind |-> "score", raw |-> raw, reason |-> reason, msg |-> ""]
JudgeAnswers ==
    {Score(F_0_0, None), Score(F_0_5, Some("Half of the claims are supported.")),
     Score(F_0_9, Some("")), Score(F_0_1, Some("Most claims are unsupported.")),
     [kind |-> "ValueError", raw |-> F_0_0, reason |-> None, msg |-> "invalid JSON from judge"],
     [kind |-> "Exception", raw |-> F_0_0, reason |-> None, msg |-> "connection refused"]}

EnvNames ==
    {"LLM_PROVIDER", "EVAL_MODEL", "GROQ_API_KEY", "OPENAI_API_KEY",
     "AZURE_OPENAI_API_KEY", "AZURE_OPENAI_API_ENDPOINT",
     "AZURE_OPENAI_DEPLOYMENT_NAME", "AZURE_OPENAI_API_VERSION"}
EmptyEnv == [n \in EnvNames |-> None]
EnvGroq == [EmptyEnv EXCEPT !["GROQ_API_KEY"] = Some("gsk-1")]
EnvOpenAI ==
    [EmptyEnv EXCEPT !["LLM_PROVIDER"] = Some("openai"), !["OPENAI_API_KEY"] = Some("sk-1")]
\* A deepeval installation.
Deepeval(pii, abstract) == [PIILeakageMetric |-> pii, abstract_base |-> abstract]
\* The processes modelled: the environment and the deepeval installed.
Deployments ==
    {[environ |-> EnvOpenAI, installed |-> Deepeval(TRUE, TRUE)],
     [environ |-> EnvOpenAI, installed |-> Deepeval(FALSE, TRUE)],
     [environ |-> EnvGroq, installed |-> Deepeval(TRUE, TRUE)],
     [environ |-> EmptyEnv, installed |-> Deepeval(TRUE, TRUE)]}

\* ----------------------------------------------------------------- actions
NoRequest ==
    [query |-> None, context |-> None, output |-> None, expected_output |-> None,
     messages |-> None, metric |-> MetricNone, provider |-> None]

Init ==
    /\ pc = "idle"
    /\ \E d \in Deployments : environ = d.environ /\ installed = d.installed
    /\ req = NoRequest
    /\ metrics_to_eval = <<>>
    /\ evaluator = None
    /\ results = <<>>
    /\ dispatched = <<>>
    /\ answers = <<>>
    /\ last_case = None
    /\ response = None
    /\ status = 0
    /\ detail = None
    /\ logged = None

\* A request arrives: the metric parameter is resolved and the minimal
\* fields of each metric are checked (a 400 ends the request).
Receive(r) ==
    /\ pc = "idle"
    /\ req' = r
    /\ metrics_to_eval' = ResolveMetrics(r.metric, r.messages)
    /\ LET gate == Gate(ResolveMetrics(r.metric, r.messages), r.output, r.messages)
       IN  IF NotNone(gate)
           THEN pc' = "rejected" /\ status' = 400 /\ detail' = gate
           ELSE pc' = "gated" /\ status' = 0 /\ detail' = None
    /\ evaluator' = None
    /\ results' = <<>>
    /\ dispatched' = <<>>
    /\ answers' = <<>>
    /\ last_case' = None
    /\ response' = None
    /\ logged' = None
    /\ UNCHANGED <<environ, installed>>

\* An exception as the except clause that catches it sees it.
Caught(exc, msg) == [exc |-> exc, msg |-> msg]

\* InitEvaluator with the text of the exception as the detail of the 500.
InitEvaluatorLeakingMessage ==
    /\ pc = "gated"
    /\ LET made == init_evaluator_from_env(environ, installed)
       IN  /\ environ' = made.environ
           /\ evaluator' = made.value
           /\ IF made.raised
              THEN /\ pc' = "failed"
                   /\ status' = 500
                   /\ detail' = Some(made.msg)
                   /\ logged' = Some(Caught(made.exc, made.msg))
              ELSE pc' = "loop" /\ UNCHANGED <<status, detail, logged>>
    /\ UNCHANGED <<installed, req, metrics_to_eval, results, dispatched, answers,
                   last_case, response>>

\* InitEvaluator with the provider named by the request, when it names one,
\* taken in place of LLM_PROVIDER.
InitEvaluatorHonouringRequest ==
    /\ pc = "gated"
    /\ LET made == init_evaluator_from_env(
                       IF IsNone(req.provider) THEN environ
                       ELSE [environ EXCEPT !["LLM_PROVIDER"] = req.provider],
                       installed)
       IN  /\ environ' = environ
           /\ evaluator' = made.value
           /\ IF made.raised
              THEN /\ pc' = "failed"
                   /\ status' = 500
                   /\ detail' = Some("Internal server error")
                   /\ logged' = Some(Caught(made.exc, made.msg))
              ELSE pc' = "loop" /\ UNCHANGED <<status, detail, logged>>
    /\ UNCHANGED <<installed, req, metrics_to_eval, results, dispatched, answers,
                   last_case, response>>

\* evaluator = init_evaluator_from_env(); an exception is logged and ends the
\* request as a 500 with a fixed detail.
InitEvaluator ==
    /\ pc = "gated"
    /\ LET made == init_evaluator_from_env(environ, installed)
       IN  /\ environ' = made.environ
           /\ evaluator' = made.value
           /\ IF made.raised
              THEN /\ pc' = "failed"
                   /\ status' = 500
                   /\ detail' = Some("Internal server error")
                   /\ logged' = Some(Caught(made.exc, made.msg))
              ELSE pc' = "loop" /\ UNCHANGED <<status, detail, logged>>
    /\ UNCHANGED <<installed, req, metrics_to_eval, results, dispatched, answers,
                   last_case, response>>

\* Number of judge calls made so far in this request.
JudgeCalls == Cardinality({k \in 1..Len(dispatched) : dispatched[k].judged})

\* What measure may do with the adapter of evaluator ev: a judge whose
\* adapter has no generate of its own gets no completion and cannot score.
AnswersWith(ev) ==
    IF "generate" \in ClassMethods(ev.model.kind) THEN JudgeAnswers
    ELSE {a \in JudgeAnswers : a.kind # "score"}

\* The answers the judge may give to its next call.
NextAnswers ==
    IF JudgeCalls < MaxJudgeAnswers THEN AnswersWith(Val(evaluator))
    ELSE {answers[(JudgeCalls % MaxJudgeAnswers) + 1]}

\* Dispatch without the `except Exception` clause of the loop body: the
\* exception reaches the handler's outer clause and ends the request as a 500.
DispatchAbortsOnException ==
    /\ pc = "loop"
    /\ Len(results) < Len(metrics_to_eval)
    /\ \E answer \in NextAnswers :
          \E e \in {Evaluate(metrics_to_eval[Len(results) + 1], req.query, req.context,
                             req.output, req.expected_output, req.messages,
                             installed.PIILeakageMetric, answer)} :
              IF e.kind = "Exception"
              THEN /\ pc' = "failed"
                   /\ status' = 500
                   /\ detail' = Some("Internal server error")
                   /\ logged' = Some(Caught("Exception", e.msg))
                   /\ UNCHANGED <<results, dispatched, answers, last_case>>
              ELSE /\ results' = Append(results, MetricResultOf(metrics_to_eval[Len(results) + 1], e))
                   /\ dispatched' = Append(dispatched, e)
                   /\ answers' = IF e.judged /\ Len(answers) < MaxJudgeAnswers
                                 THEN Append(answers, answer) ELSE answers
                   /\ last_case' = IF e.built THEN Some(e.test_case) ELSE last_case
                   /\ UNCHANGED <<pc, status, detail, logged>>
    /\ UNCHANGED <<environ, installed, req, metrics_to_eval, evaluator, response>>

\* Dispatch with one automatic retry: a metric whose judge call failed is
\* evaluated a second time, and the outcome of the second call is reported.
DispatchRetryingFailedCall ==
    /\ pc = "loop"
    /\ Len(results) < Len(metrics_to_eval)
    /\ \E answer \in NextAnswers :
          \E e \in {Evaluate(metrics_to_eval[Len(results) + 1], req.query, req.context,
                             req.output, req.expected_output, req.messages,
                             installed.PIILeakageMetric, answer)} :
              /\ results' = Append(results, MetricResultOf(metrics_to_eval[Len(results) + 1], e))
              /\ dispatched' = IF e.judged /\ e.kind # "ok"
                               THEN dispatched \o <<e, e>>
                               ELSE Append(dispatched, e)
              /\ answers' = IF e.judged /\ Len(answers) < MaxJudgeAnswers
                            THEN Append(answers, answer) ELSE answers
              /\ last_case' = IF e.built THEN Some(e.test_case) ELSE last_case
    /\ UNCHANGED <<pc, environ, installed, req, metrics_to_eval, evaluator, response,
                   status, detail, logged>>

\* Dispatch with the case built by the first dispatch that needs one and kept
\* for the rest of the batch: later dispatches measure that same object.
DispatchReusingCase ==
    /\ pc = "loop"
    /\ Len(results) < Len(metrics_to_eval)
    /\ \E answer \in NextAnswers :
          \E f \in {Evaluate(metrics_to_eval[Len(results) + 1], req.query, req.context,
                             req.output, req.expected_output, req.messages,
                             installed.PIILeakageMetric, answer)} :
              LET e == IF f.built /\ NotNone(last_case)
                       THEN [f EXCEPT !.built = FALSE,
                                      !.built_case = Val(last_case),
                                      !.test_case =
                                          IF f.judged
                                          THEN CaseMeasured(Lower(metrics_to_eval[Len(results) + 1]),
                                                            Val(last_case))
                                          ELSE Val(last_case)]
                       ELSE f
              IN  /\ results' = Append(results, MetricResultOf(metrics_to_eval[Len(results) + 1], e))
                  /\ dispatched' = Append(dispatched, e)
                  /\ answers' = IF e.judged /\ Len(answers) < MaxJudgeAnswers
                                THEN Append(answers, answer) ELSE answers
                  /\ last_case' = IF f.built THEN Some(e.test_case) ELSE last_case
    /\ UNCHANGED <<pc, environ, installed, req, metrics_to_eval, evaluator, response,
                   status, detail, logged>>

\* One iteration of the loop over metrics_to_eval.
Dispatch ==
    /\ pc = "loop"
    /\ Len(results) < Len(metrics_to_eval)
    /\ \E answer \in NextAnswers :
          \E e \in {Evaluate(metrics_to_eval[Len(results) + 1], req.query, req.context,
                             req.output, req.expected_output, req.messages,
                             installed.PIILeakageMetric, answer)} :
              /\ results' = Append(results, MetricResultOf(metrics_to_eval[Len(results) + 1], e))
              /\ dispatched' = Append(dispatched, e)
              /\ answers' = IF e.judged /\ Len(answers) < MaxJudgeAnswers
                            THEN Append(answers, answer) ELSE answers
              /\ last_case' = IF e.built THEN Some(e.test_case) ELSE last_case
    /\ UNCHANGED <<pc, environ, installed, req, metrics_to_eval, evaluator, response,
                   status, detail, logged>>

\* The loop is over: the response is built and returned.
Respond ==
    /\ pc = "loop"
    /\ Len(results) = Len(metrics_to_eval)
    /\ response' = Some(BuildResponse(results))
    /\ status' = 200
    /\ pc' = "done"
    /\ UNCHANGED <<environ, installed, req, metrics_to_eval, evaluator, results,
                   dispatched, answers, last_case, detail, logged>>

\* The handler has returned or raised: the request and everything built for
\* it are dropped, the process environment stays.
Finish ==
    /\ pc \in {"done", "rejected", "failed"}
    /\ pc' = "idle"
    /\ req' = NoRequest
    /\ metrics_to_eval' = <<>>
    /\ evaluator' = None
    /\ results' = <<>>
    /\ dispatched' = <<>>
    /\ answers' = <<>>
    /\ last_case' = None
    /\ response' = None
    /\ status' = 0
    /\ detail' = None
    /\ logged' = None
    /\ UNCHANGED <<environ, installed>>

Next ==
    \/ pc = "idle" /\ \E r \in Requests : Receive(r)
    \/ InitEvaluator
    \/ Dispatch
    \/ Respond
    \/ Finish

Spec == Init /\ [][Next]_vars

\* ------------------------------------- create_test_case called on its own
\* The arguments of direct calls of create_test_case: every field combination,
\* with messages of up to MaxMessages elements.
CaseMessages == {None} \cup {Some(l) : l \in SeqsUpTo(MessageDicts, MaxMessages)}
CaseArguments ==
    [query : Queries, context : Contexts, output : Outputs,
     expected_output : ExpectedOutputs, messages : CaseMessages,
     metric : {MetricNone}, provider : {None}]

InitCase ==
    /\ pc = "call"
    /\ environ = EnvGroq
    /\ installed = Deepeval(TRUE, TRUE)
    /\ req \in CaseArguments
    /\ metrics_to_eval = <<>>
    /\ evaluator = None
    /\ results = <<>>
    /\ dispatched = <<>>
    /\ answers = <<>>
    /\ last_case = None
    /\ response = None
    /\ status = 0
    /\ detail = None
    /\ logged = None

\* evaluator.create_test_case(query, context, output, expected_output, messages)
CallCreateTestCase ==
    /\ pc = "call"
    /\ last_case' = Some(create_test_case(req.query, req.context, req.output,
                                          req.expected_output, req.messages))
    /\ pc' = "returned"
    /\ UNCHANGED <<environ, installed, req, metrics_to_eval, evaluator, results,
                   dispatched, answers, response, status, detail, logged>>

NextCase == CallCreateTestCase

SpecCase == InitCase /\ [][NextCase]_vars

\* ------------------------------- the handler under every provider configuration
\* LLM_PROVIDER absent or naming groq, with every state of GROQ_API_KEY.
GroqEnvs ==
    {[EmptyEnv EXCEPT !["LLM_PROVIDER"] = p, !["GROQ_API_KEY"] = k, !["EVAL_MODEL"] = m] :
        p \in {None, Some("groq"), Some("Groq"), Some(" Groq ")},
        k \in {None, Some(""), Some("your-groq-api-key-here"), Some("gsk-1")},
        m \in {None, Some("gpt-4o")}}
\* LLM_PROVIDER naming openai, with every state of OPENAI_API_KEY.
OpenAIEnvs ==
    {[EmptyEnv EXCEPT !["LLM_PROVIDER"] = p, !["OPENAI_API_KEY"] = k, !["EVAL_MODEL"] = m] :
        p \in {Some("openai"), Some("OpenAI")},
        k \in {None, Some(""), Some("your-openai-api-key-here"), Some("sk-1")},
        m \in {None, Some("gpt-4o"), Some("llama-3.3-70b-versatile")}}
\* LLM_PROVIDER naming azure-openai, with every state of its four variables.
AzureEnvs ==
    {[EmptyEnv EXCEPT !["LLM_PROVIDER"] = Some("azure-openai"),
                      !["AZURE_OPENAI_API_KEY"] = k,
                      !["AZURE_OPENAI_API_ENDPOINT"] = e,
                      !["AZURE_OPENAI_DEPLOYMENT_NAME"] = d,
                      !["AZURE_OPENAI_API_VERSION"] = v] :
        k \in {None, Some(""), Some("your-azure-openai-api-key-here"), Some("az-1")},
        e \in {None, Some(""), Some("https://r.openai.azure.com")},
        d \in {None, Some(""), Some("gpt-4o")},
        v \in {None, Some("2024-06-01")}}
\* LLM_PROVIDER naming no provider of the service, every key being set.
OtherEnvs ==
    {[EmptyEnv EXCEPT !["LLM_PROVIDER"] = p, !["GROQ_API_KEY"] = Some("gsk-1"),
                      !["OPENAI_API_KEY"] = Some("sk-1"),
                      !["AZURE_OPENAI_API_KEY"] = Some("az-1")] :
        p \in {Some("anthropic"), Some("")}}

ProviderDeployments ==
    {[environ |-> e, installed |-> Deepeval(TRUE, a)] :
        e \in GroqEnvs \cup OpenAIEnvs \cup AzureEnvs \cup OtherEnvs, a \in BOOLEAN}

\* The requests sent under each configuration: the default metric, a list of
\* two metrics, and a request the gate rejects.
ProviderRequestShapes ==
    {[NoRequest EXCEPT !.output = Some("Selenium is a framework.")],
     [NoRequest EXCEPT !.output = Some("Selenium is a framework."),
                       !.metric = MetricList(<<"pii_leakage", "nonsense">>)],
     [NoRequest EXCEPT !.query = Some("What is Selenium?")]}
\* Each of them with every value of the field provider.
ProviderRequests ==
    {[r EXCEPT !.provider = p] : r \in ProviderRequestShapes, p \in Providers}

InitProvider ==
    /\ pc = "idle"
    /\ \E d \in ProviderDeployments : environ = d.environ /\ installed = d.installed
    /\ req = NoRequest
    /\ metrics_to_eval = <<>>
    /\ evaluator = None
    /\ results = <<>>
    /\ dispatched = <<>>
    /\ answers = <<>>
    /\ last_case = None
    /\ response = None
    /\ status = 0
    /\ detail = None
    /\ logged = None

NextProvider ==
    \/ pc = "idle" /\ \E r \in ProviderRequests : Receive(r)
    \/ InitEvaluator
    \/ Dispatch
    \/ Respond
    \/ Finish

SpecProvider == InitProvider /\ [][NextProvider]_vars

\* ------------------------------------- MetricEvaluator constructed on its own
\* The arguments of direct constructions of MetricEvaluator.
ConstructArguments ==
    [api_key : {None, Some("")} \cup {Some(k) : k \in PlaceholderKeys} \cup {Some("key-1")},
     model_name : {"gpt-4o"},
     use_groq : BOOLEAN,
     use_azure : BOOLEAN,
     azure_endpoint : {None, Some(""), Some("https://r.openai.azure.com")},
     azure_deployment : {None, Some(""), Some("gpt-4o")},
     azure_api_version : {"2024-02-15-preview"}]

InitConstruct ==
    /\ pc = "construct"
    /\ environ = EmptyEnv
    /\ installed \in {Deepeval(TRUE, a) : a \in BOOLEAN}
    /\ req \in ConstructArguments
    /\ metrics_to_eval = <<>>
    /\ evaluator = None
    /\ results = <<>>
    /\ dispatched = <<>>
    /\ answers = <<>>
    /\ last_case = None
    /\ response = None
    /\ status = 0
    /\ detail = None
    /\ logged = None

\* MetricEvaluator(api_key, model_name, use_groq, use_azure, azure_endpoint,
\* azure_deployment, azure_api_version): returns the evaluator or raises.
CallMetricEvaluator ==
    /\ pc = "construct"
    /\ LET made == MetricEvaluatorInit(environ, installed, req.api_key, req.model_name,
                                       req.use_groq, req.use_azure, req.azure_endpoint,
                                       req.azure_deployment, req.azure_api_version)
       IN  /\ environ' = made.environ
           /\ evaluator' = made.value
           /\ logged' = IF made.raised THEN Some(Caught(made.exc, made.msg)) ELSE None
           /\ pc' = IF made.raised THEN "raised" ELSE "constructed"
    /\ UNCHANGED <<installed, req, metrics_to_eval, results, dispatched, answers,
                   last_case, response, status, detail>>

NextConstruct == CallMetricEvaluator

SpecConstruct == InitConstruct /\ [][NextConstruct]_vars

\* ------------------------------------------- evaluate called on its own
\* The metric names given to direct calls of evaluate.
EvaluateNames ==
    {"faithfulness", "Faithfulness", "answer_relevancy", "contextual_precision",
     "contextual_recall", "conversation_completeness", "Conversation_Completeness",
     "hallucination", "pii_leakage", "nonsense"}

\* The arguments of direct calls of evaluate: every field combination.
EvaluateArguments ==
    [query : Queries, context : Contexts, output : Outputs,
     expected_output : ExpectedOutputs, messages : RequestMessages,
     metric : {MetricStr(n) : n \in EvaluateNames}, provider : {None}]

InitEvaluate ==
    /\ pc = "evaluate"
    /\ environ = EnvOpenAI
    /\ installed \in {Deepeval(p, TRUE) : p \in BOOLEAN}
    /\ req \in EvaluateArguments
    /\ metrics_to_eval = <<>>
    /\ evaluator = init_evaluator_from_env(EnvOpenAI, installed).value
    /\ results = <<>>
    /\ dispatched = <<>>
    /\ answers = <<>>
    /\ last_case = None
    /\ response = None
    /\ status = 0
    /\ detail = None
    /\ logged = None

\* evaluator.evaluate(metric_name, query, context, output, expected_output,
\* messages): returns a score and an explanation, or raises.
CallEvaluate ==
    /\ pc = "evaluate"
    /\ \E answer \in AnswersWith(Val(evaluator)) :
          \E e \in {Evaluate(req.metric.s, req.query, req.context, req.output,
                             req.expected_output, req.messages,
                             installed.PIILeakageMetric, answer)} :
              /\ dispatched' = <<e>>
              /\ answers' = IF e.judged THEN <<answer>> ELSE <<>>
              /\ last_case' = IF e.built THEN Some(e.test_case) ELSE None
              /\ logged' = IF e.kind = "ok" THEN None ELSE Some(Caught(e.kind, e.msg))
              /\ pc' = IF e.kind = "ok" THEN "returned" ELSE "raised"
    /\ UNCHANGED <<environ, installed, req, metrics_to_eval, evaluator, results,
                   response, status, detail>>

NextEvaluate == CallEvaluate

SpecEvaluate == InitEvaluate /\ [][NextEvaluate]_vars

\* ================================================================== claims
\* Whether dispatch number i of the current request raised.
Raises(i) == dispatched[i].kind # "ok"

\* C1: batch isolation. Once the gate has passed and the evaluator exists,
\* every dispatch that raises (a validation failure or any exception of the
\* judge) leaves a MetricResult for its position with error set and score and
\* explanation null; the loop goes on to the next position whenever one is
\* left, the request is never turned into a request-level failure, and it
\* ends as a 200 with one result per resolved metric.
BatchIsolation ==
    /\ Len(dispatched) = Len(results)
    /\ \A i \in 1..Len(dispatched) :
          Raises(i) =>
              /\ results[i].metric_name = metrics_to_eval[i]
              /\ NotNone(results[i].error)
              /\ IsNone(results[i].score)
              /\ IsNone(results[i].explanation)
    /\ NotNone(evaluator) =>
          /\ pc \in {"loop", "done"}
          /\ status \in {0, 200}
          /\ (pc = "loop" /\ Len(results) < Len(metrics_to_eval)) => ENABLED Dispatch
          /\ (pc = "loop" /\ Len(results) = Len(metrics_to_eval)) => ENABLED Respond
          /\ pc = "done" =>
                /\ status = 200
                /\ NotNone(response)
                /\ Len(results) = Len(metrics_to_eval)

\* C1 witness: a finished batch in which the judge's exception at one
\* position is followed by a successful metric at a later one.
BatchIsolationWitness ==
    /\ pc = "done"
    /\ \E i, j \in 1..Len(dispatched) :
          /\ i < j
          /\ dispatched[i].kind = "Exception"
          /\ dispatched[j].kind = "ok"
          /\ NotNone(results[i].error)
          /\ NotNone(results[j].score)

\* Exactly one of score and error is present in a MetricResult.
ScoreXorError(result) == NotNone(result.score) # NotNone(result.error)

\* C2: every MetricResult built by the loop, and every MetricResult of a
\* returned response, has exactly one of score and error non-null.
ExactlyOneOfScoreAndError ==
    /\ \A i \in 1..Len(results) : ScoreXorError(results[i])
    /\ NotNone(response) =>
          \A i \in 1..Len(Val(response).results) : ScoreXorError(Val(response).results[i])

\* C2 witness: a response whose results come from a returned score, from a
\* ValueError of the judge and from another exception of the judge.
ExactlyOneOfScoreAndErrorWitness ==
    /\ NotNone(response)
    /\ \E i, j \in 1..Len(dispatched) :
          /\ dispatched[i].answer.kind = "Exception"
          /\ dispatched[j].answer.kind = "score"
          /\ NotNone(Val(response).results[i].error)
          /\ NotNone(Val(response).results[j].score)

\* C3: the legacy fields metric_name, score and explanation of a response are
\* those of the first result with a non-null score; with no such result they
\* are all null and the request has still ended as a 200.
LegacyProjection ==
    NotNone(response) =>
        LET r == Val(response)
            scored == {k \in 1..Len(r.results) : NotNone(r.results[k].score)}
        IN  /\ pc = "done"
            /\ status = 200
            /\ IsNone(detail)
            /\ IF scored = {}
               THEN IsNone(r.metric_name) /\ IsNone(r.score) /\ IsNone(r.explanation)
               ELSE \E f \in scored :
                       /\ \A k \in scored : f <= k
                       /\ r.metric_name = Some(r.results[f].metric_name)
                       /\ r.score = r.results[f].score
                       /\ r.explanation = r.results[f].explanation

\* C3 witness: a response whose first result carries an error and whose
\* second carries the score 0.0 that the legacy fields show.
LegacyProjectionWitness ==
    /\ NotNone(response)
    /\ Len(Val(response).results) = 2
    /\ NotNone(Val(response).results[1].error)
    /\ Val(response).results[2].score = Some(F_0_0)
    /\ Val(response).score = Some(F_0_0)
    /\ Val(response).metric_name = Some(Val(response).results[2].metric_name)

\* A request is being handled or has been answered.
Handling == pc \in {"gated", "loop", "done", "rejected", "failed"}

\* results holds one entry per element of the resolved metric list, in the
\* same order and with the name as resolved; a finished request has all of
\* them, and they are the results of the response.
OneResultPerResolvedMetric ==
    /\ Len(results) <= Len(metrics_to_eval)
    /\ \A i \in 1..Len(results) : results[i].metric_name = metrics_to_eval[i]
    /\ pc = "done" =>
          /\ Len(results) = Len(metrics_to_eval)
          /\ Val(response).results = results

\* C4 as amended: results holds one entry per element of the resolved metric
\* list, in the same order; a non-empty metric list is the resolved list as
\* it is, and an empty metric list resolves to the single metric faithfulness.
ResultsFollowResolution ==
    /\ OneResultPerResolvedMetric
    /\ (Handling /\ req.metric.kind = "list") =>
          IF Len(req.metric.l) > 0
          THEN metrics_to_eval = req.metric.l
          ELSE metrics_to_eval = <<"faithfulness">>

\* C4 as stated: results holds one entry per element of the resolved metric
\* list, in the same order, and every metric list is the resolved list as it is.
ResultsFollowResolutionAsGiven ==
    /\ OneResultPerResolvedMetric
    /\ (Handling /\ req.metric.kind = "list") => metrics_to_eval = req.metric.l

\* C4 witness: a finished request whose metric list names one metric twice.
ResultsFollowResolutionWitness ==
    /\ pc = "done"
    /\ req.metric.kind = "list"
    /\ Len(results) = 2
    /\ results[1].metric_name = results[2].metric_name

\* Some resolved metric lacks its minimal field: messages for
\* conversation_completeness, output for every other name.
GateViolated ==
    \E k \in 1..Len(metrics_to_eval) :
        IF Lower(metrics_to_eval[k]) = "conversation_completeness"
        THEN FalsyList(req.messages)
        ELSE FalsyStr(req.output)

\* C5: a request is rejected by the gate exactly when some resolved metric
\* lacks its minimal field; the rejection is a 400, and in a rejected request
\* no evaluator is constructed, no metric is dispatched, the judge is not
\* called and no result or response exists.
RequestGate ==
    pc \in {"gated", "loop", "done", "rejected", "failed"} =>
        /\ GateViolated <=> pc = "rejected"
        /\ status = 400 <=> pc = "rejected"
        /\ pc = "rejected" =>
              /\ NotNone(detail)
              /\ IsNone(evaluator)
              /\ results = <<>>
              /\ dispatched = <<>>
              /\ answers = <<>>
              /\ IsNone(last_case)
              /\ IsNone(response)
              /\ ~ENABLED InitEvaluator
              /\ ~ENABLED Dispatch
              /\ ~ENABLED Respond

\* C5 witness: a request with an output, rejected because its second metric
\* is conversation_completeness and it has no messages.
RequestGateWitness ==
    /\ pc = "rejected"
    /\ ~FalsyStr(req.output)
    /\ Len(metrics_to_eval) = 2
    /\ metrics_to_eval[2] = "conversation_completeness"
    /\ detail = Some("messages field is required for conversation_completeness metric")

\* The registry without conversation_completeness, in registry order.
RegistryWithoutConversation ==
    <<"faithfulness", "answer_relevancy", "contextual_precision",
      "contextual_recall", "hallucination", "pii_leakage">>

\* The registry, in registry order.
RegistryInOrder ==
    <<"faithfulness", "answer_relevancy", "contextual_precision",
      "contextual_recall", "conversation_completeness", "hallucination",
      "pii_leakage">>

\* What "all" resolves to for the messages of the request.
AllResolved ==
    IF FalsyList(req.messages) THEN RegistryWithoutConversation ELSE RegistryInOrder

\* C6 as amended: "all" (in any letter case) resolves to the registry in
\* registry order, without conversation_completeness when messages is empty
\* or absent and with it otherwise; any other non-empty string resolves to
\* exactly that one metric, as written; the empty string resolves to the
\* single metric faithfulness.
SelectorResolution ==
    (Handling /\ req.metric.kind = "str") =>
        IF Lower(req.metric.s) = "all" THEN metrics_to_eval = AllResolved
        ELSE IF req.metric.s = "" THEN metrics_to_eval = <<"faithfulness">>
        ELSE metrics_to_eval = <<req.metric.s>>

\* C6 as stated: "all" resolves to the registry with or without
\* conversation_completeness, and every other single string resolves to
\* exactly that one metric.
SelectorResolutionAsGiven ==
    (Handling /\ req.metric.kind = "str") =>
        IF Lower(req.metric.s) = "all" THEN metrics_to_eval = AllResolved
        ELSE metrics_to_eval = <<req.metric.s>>

\* C6 witness: "all" with an empty messages list has been evaluated as the
\* six metrics other than conversation_completeness.
SelectorResolutionWitness ==
    /\ pc = "done"
    /\ req.metric = MetricStr("all")
    /\ req.messages = Some(<<>>)
    /\ Len(results) = 6
    /\ \A k \in 1..6 : results[k].metric_name # "conversation_completeness"

\* The names of the registry.
RegistryNames ==
    {"faithfulness", "answer_relevancy", "contextual_precision", "contextual_recall",
     "conversation_completeness", "hallucination", "pii_leakage"}

\* The error evaluate raises for a name outside the registry.
UnsupportedMessage(metric_name) ==
    "Unsupported metric: " \o Lower(metric_name)
        \o ". Supported: ['faithfulness', 'answer_relevancy', 'contextual_precision', "
        \o "'contextual_recall', 'conversation_completeness', 'hallucination', 'pii_leakage']"

\* Position k of the resolved list names no metric of the registry.
Unsupported(k) == Lower(metrics_to_eval[k]) \notin RegistryNames

\* C7 as amended: validate_metric is false for every name outside the
\* registry (compared in lower case). Such a name does not make POST /eval
\* reject the request: its position in results carries the error
\* "Unsupported metric: <name>. Supported: [<registry names>]" with a null
\* score and without a judge call, and the request ends as a 200 like any
\* other; a request with no output that names it is rejected by the gate with
\* the gate's own message, which is not the unsupported-metric message.
UnsupportedMetricReported ==
    /\ \A name \in StringNames \cup ListNames :
          validate_metric(name) <=> Lower(name) \in RegistryNames
    /\ \A k \in 1..Len(results) :
          Unsupported(k) =>
              /\ results[k].error = Some(UnsupportedMessage(metrics_to_eval[k]))
              /\ IsNone(results[k].score)
              /\ ~dispatched[k].judged
    /\ (Handling /\ \E k \in 1..Len(metrics_to_eval) : Unsupported(k)) =>
          /\ pc = "done" => status = 200
          /\ FalsyStr(req.output) =>
                /\ pc = "rejected"
                /\ status = 400
                /\ \E k \in 1..Len(metrics_to_eval) :
                      detail \in {Some("output field is required for "
                                        \o Lower(metrics_to_eval[k]) \o " metric"),
                                  Some("messages field is required for conversation_completeness metric")}

\* C7 as stated: a request naming a metric outside the registry is rejected,
\* with the unsupported-metric message listing the valid names, whatever its
\* other fields.
UnsupportedMetricRejected ==
    (pc \in {"done", "rejected", "failed"}
     /\ \E k \in 1..Len(metrics_to_eval) : Unsupported(k)) =>
        /\ pc = "rejected"
        /\ \E k \in 1..Len(metrics_to_eval) :
              Unsupported(k) /\ detail = Some(UnsupportedMessage(metrics_to_eval[k]))

\* C7 witness: a finished request whose list names an unsupported metric and
\* a supported one: the first has the unsupported-metric error, the second a score.
UnsupportedMetricReportedWitness ==
    /\ pc = "done"
    /\ status = 200
    /\ Len(results) = 2
    /\ Unsupported(1)
    /\ results[1].error = Some(UnsupportedMessage("nonsense"))
    /\ NotNone(results[2].score)

\* Position k names contextual_precision or contextual_recall and the
\* request lacks expected_output or context.
ContextualFieldMissing(k) ==
    /\ Lower(metrics_to_eval[k]) \in {"contextual_precision", "contextual_recall"}
    /\ FalsyStr(req.expected_output) \/ FalsyList(req.context)

\* The error naming the field a contextual metric lacks: expected_output
\* when it is missing, context otherwise.
ContextualFieldError(k) ==
    IF FalsyStr(req.expected_output)
    THEN Lower(metrics_to_eval[k]) \o " requires 'expected_output' field"
    ELSE Lower(metrics_to_eval[k]) \o " requires 'context' field (list of retrieved passages)"

\* C8: in a request with a non-empty output, a contextual_precision or
\* contextual_recall that lacks expected_output or context gets, at its
\* position, the error naming the missing field (expected_output when both
\* are missing), with a null score and without a judge call; the request is
\* rejected only for a conversation_completeness without messages and fails
\* only when init_evaluator_from_env raises; every other position is
\* dispatched, and wherever the judge returned a score the result has it.
ContextualFieldsReportedPerMetric ==
    /\ \A k \in 1..Len(results) :
          ContextualFieldMissing(k) =>
              /\ results[k].error = Some(ContextualFieldError(k))
              /\ IsNone(results[k].score)
              /\ ~dispatched[k].judged
              /\ \A j \in 1..Len(results) :
                    (dispatched[j].judged /\ dispatched[j].answer.kind = "score") =>
                        NotNone(results[j].score) /\ IsNone(results[j].error)
    /\ (Handling /\ ~FalsyStr(req.output)
        /\ \E k \in 1..Len(metrics_to_eval) : ContextualFieldMissing(k)) =>
          /\ pc = "rejected" =>
                /\ FalsyList(req.messages)
                /\ \E j \in 1..Len(metrics_to_eval) :
                      Lower(metrics_to_eval[j]) = "conversation_completeness"
                /\ detail = Some("messages field is required for conversation_completeness metric")
          /\ pc = "failed" => init_evaluator_from_env(environ, installed).raised
          /\ pc = "done" => status = 200 /\ Len(results) = Len(metrics_to_eval)

\* C8 witness: contextual_precision with neither expected_output nor context,
\* followed by a pii_leakage that is scored.
ContextualFieldsReportedPerMetricWitness ==
    /\ pc = "done"
    /\ metrics_to_eval = <<"contextual_precision", "pii_leakage">>
    /\ FalsyStr(req.expected_output)
    /\ FalsyList(req.context)
    /\ results[1].error = Some("contextual_precision requires 'expected_output' field")
    /\ NotNone(results[2].score)

\* reported + raw - 1 in units of 2^-56, for two floats whose sum is within
\* 2^-28 of 1 (any other sum is reported as a full limb).
ErrorOfOneMinus(reported, raw) ==
    IF reported[1] + raw[1] = Limb THEN reported[2] + raw[2]
    ELSE IF reported[1] + raw[1] = Limb - 1 THEN reported[2] + raw[2] - Limb
    ELSE Limb

Abs(n) == IF n < 0 THEN 0 - n ELSE n

\* reported is the result of the float subtraction 1.0 - raw: a double, at
\* most half a unit in its last place from 1 - raw, and 1 - raw itself for
\* a raw score of at least 0.5.
IsFloatOneMinus(reported, raw) ==
    /\ reported[2] % Quantum(reported[1]) = 0
    /\ 2 * Abs(ErrorOfOneMinus(reported, raw)) <= Quantum(reported[1])
    /\ raw[1] >= 134217728 => ErrorOfOneMinus(reported, raw) = 0

\* Position k was scored by the judge.
Scored(k) == dispatched[k].kind = "ok"

\* 0.09999999999999998, the double 1.0 - 0.9.
F_0_0999 == <<26843545, 161061272>>

\* C9 as amended: each dispatch of pii_leakage reports the float difference
\* 1.0 - r of the judge's raw score r: the double nearest 1 - r, which is
\* 1 - r itself for r >= 0.5; for the double 0.9 this is 0.09999999999999998
\* and not the double 0.1. The inversion is applied once per dispatch: two
\* dispatches with the same raw score report the same value, and the value
\* reported equals r itself only for r = 0.5, where it is still 1 - r. No
\* other metric's score is inverted.
PiiScoreInvertedOnce ==
    /\ \A k \in 1..Len(results) :
          Scored(k) =>
              IF Lower(metrics_to_eval[k]) = "pii_leakage"
              THEN /\ IsFloatOneMinus(Val(results[k].score), dispatched[k].answer.raw)
                   /\ Val(results[k].score) = dispatched[k].answer.raw
                          => dispatched[k].answer.raw = F_0_5
                   /\ dispatched[k].answer.raw = F_0_9 => Val(results[k].score) = F_0_0999
              ELSE Val(results[k].score) = dispatched[k].answer.raw
    /\ \A j, k \in 1..Len(results) :
          (Scored(j) /\ Scored(k)
           /\ Lower(metrics_to_eval[j]) = "pii_leakage"
           /\ Lower(metrics_to_eval[k]) = "pii_leakage"
           /\ dispatched[j].answer.raw = dispatched[k].answer.raw) =>
              results[j].score = results[k].score

\* C9 as stated: each dispatch of pii_leakage reports exactly 1 - r, which
\* for r = 0.9 is 0.1, and never r itself; no other metric's score is inverted.
PiiScoreExactlyOneMinusRaw ==
    \A k \in 1..Len(results) :
        Scored(k) =>
            IF Lower(metrics_to_eval[k]) = "pii_leakage"
            THEN /\ ErrorOfOneMinus(Val(results[k].score), dispatched[k].answer.raw) = 0
                 /\ dispatched[k].answer.raw = F_0_9 => Val(results[k].score) = F_0_1
                 /\ Val(results[k].score) # dispatched[k].answer.raw
            ELSE Val(results[k].score) = dispatched[k].answer.raw

\* C9 witness: pii_leakage dispatched twice in one batch, the judge giving
\* 0.9 both times and 0.09999999999999998 being reported both times.
PiiScoreInvertedOnceWitness ==
    /\ pc = "done"
    /\ metrics_to_eval = <<"pii_leakage", "pii_leakage">>
    /\ dispatched[1].answer.raw = F_0_9
    /\ dispatched[2].answer.raw = F_0_9
    /\ results[1].score = Some(F_0_0999)
    /\ results[2].score = Some(F_0_0999)

\* The turn create_test_case is to make of one message.
ExpectedTurn(msg) ==
    [role |-> IF "role" \in DOMAIN msg THEN msg["role"] ELSE "user",
     content |-> IF "content" \in DOMAIN msg THEN msg["content"] ELSE ""]

\* C10: for every non-empty messages sequence create_test_case returns a
\* conversation case with one turn per message, in the same order, whose
\* role is the message's role, or "user" without one, and whose content is
\* the message's content, or the empty string without one.
ConversationCaseTurns ==
    (pc = "returned" /\ ~FalsyList(req.messages)) =>
        /\ NotNone(last_case)
        /\ Val(last_case).kind = "ConversationalTestCase"
        /\ Len(Val(last_case).turns) = Len(Val(req.messages))
        /\ \A k \in 1..Len(Val(req.messages)) :
              Val(last_case).turns[k] = ExpectedTurn(Val(req.messages)[k])

\* C10 witness: two messages, the second without role, have become two
\* turns in that order, the second with the role "user".
ConversationCaseTurnsWitness ==
    /\ pc = "returned"
    /\ req.messages = Some(<<[role |-> "assistant", content |-> "hi"], [content |-> "there"]>>)
    /\ Val(last_case).turns =
          <<[role |-> "assistant", content |-> "hi"], [role |-> "user", content |-> "there"]>>

\* C11 as stated: create_test_case returns a conversation case exactly when
\* messages is non-empty; for messages absent and for an empty messages list
\* it returns a single-turn case with input = query or "", actual_output =
\* output, retrieval_context = context or [] and expected_output as given.
CaseShapeSelection ==
    pc = "returned" =>
        LET c == Val(last_case)
        IN  /\ c.kind = "ConversationalTestCase" <=> ~FalsyList(req.messages)
            /\ FalsyList(req.messages) =>
                  /\ c.kind = "LLMTestCase"
                  /\ c.input = Some(IF FalsyStr(req.query) THEN "" ELSE Val(req.query))
                  /\ c.actual_output = req.output
                  /\ c.retrieval_context =
                        Some(IF FalsyList(req.context) THEN <<>> ELSE Val(req.context))
                  /\ c.expected_output = req.expected_output

\* The provider the environment selects: LLM_PROVIDER in lower case and
\* stripped, groq when it is not set.
SelectedProvider(env) == Strip(Lower(GetEnv(env, "LLM_PROVIDER", "groq")))

\* The message for the first piece of configuration the selected provider
\* lacks, None when it lacks none: an unset or empty key, an unset or empty
\* Azure endpoint or deployment, or a provider the service does not know.
ConfigProblem(env) ==
    LET p == SelectedProvider(env)
    IN  IF p = "groq"
        THEN IF FalsyStr(env["GROQ_API_KEY"])
             THEN Some("GROQ_API_KEY environment variable is required when using Groq")
             ELSE None
        ELSE IF p = "openai"
        THEN IF FalsyStr(env["OPENAI_API_KEY"])
             THEN Some("OPENAI_API_KEY environment variable is required when using OpenAI")
             ELSE None
        ELSE IF p = "azure-openai"
        THEN IF FalsyStr(env["AZURE_OPENAI_API_KEY"])
             THEN Some("AZURE_OPENAI_API_KEY environment variable is required when using Azure OpenAI")
             ELSE IF FalsyStr(env["AZURE_OPENAI_API_ENDPOINT"])
             THEN Some("AZURE_OPENAI_API_ENDPOINT environment variable is required when using Azure OpenAI")
             ELSE IF FalsyStr(env["AZURE_OPENAI_DEPLOYMENT_NAME"])
             THEN Some("AZURE_OPENAI_DEPLOYMENT_NAME environment variable is required when using Azure OpenAI")
             ELSE None
        ELSE Some("Unsupported LLM_PROVIDER: " \o p
                  \o ". Supported values: 'groq', 'openai', 'azure-openai'")

\* The request has passed the gate and the construction of the evaluator has
\* been attempted.
PastConstruction == pc \in {"loop", "done", "failed"}

\* C12 as amended: with a missing or invalid provider configuration every
\* request that passes the gate fails: a ValueError whose message names the
\* variable the selected provider lacks (or the unsupported provider) is
\* raised and logged, no evaluator exists and nothing is dispatched, and the
\* caller receives a 500 whose detail is the fixed text "Internal server
\* error", not that message.
ConfigFailureLoggedNotDelivered ==
    (PastConstruction /\ NotNone(ConfigProblem(environ))) =>
        /\ pc = "failed"
        /\ status = 500
        /\ logged = Some(Caught("ValueError", Val(ConfigProblem(environ))))
        /\ detail = Some("Internal server error")
        /\ detail # Some(Val(ConfigProblem(environ)))
        /\ IsNone(evaluator)
        /\ results = <<>>
        /\ dispatched = <<>>

\* C12 as stated: with a missing or invalid provider configuration the
\* request fails and the caller receives the provider-specific message.
ConfigFailureMessageDelivered ==
    (PastConstruction /\ NotNone(ConfigProblem(environ))) =>
        /\ pc = "failed"
        /\ detail = Some(Val(ConfigProblem(environ)))

\* C12 witness: azure-openai selected with key and endpoint set and no
\* deployment: the message naming AZURE_OPENAI_DEPLOYMENT_NAME is logged and
\* the caller gets the fixed detail.
ConfigFailureLoggedNotDeliveredWitness ==
    /\ pc = "failed"
    /\ environ["LLM_PROVIDER"] = Some("azure-openai")
    /\ environ["AZURE_OPENAI_API_KEY"] = Some("az-1")
    /\ environ["AZURE_OPENAI_API_ENDPOINT"] = Some("https://r.openai.azure.com")
    /\ logged = Some(Caught("ValueError",
          "AZURE_OPENAI_DEPLOYMENT_NAME environment variable is required when using Azure OpenAI"))
    /\ status = 500
    /\ detail = Some("Internal server error")

\* The construction arguments carry a configuration error: an empty or
\* placeholder api_key, or, for the Azure variant, no endpoint or deployment.
BadConstructArguments(a) ==
    \/ FalsyStr(a.api_key)
    \/ Val(a.api_key) \in {"your-openai-api-key-here", "your-groq-api-key-here",
                           "your-azure-openai-api-key-here"}
    \/ a.use_azure /\ (FalsyStr(a.azure_endpoint) \/ FalsyStr(a.azure_deployment))

\* The adapter class the construction arguments select.
SelectedAdapter(a) ==
    IF a.use_azure THEN "AzureOpenAIModel"
    ELSE IF a.use_groq THEN "GroqModel"
    ELSE "GPTModel"

\* C13 as stated: the construction of MetricEvaluator raises a configuration
\* error (ValueError), with no adapter created, no evaluator and the
\* environment untouched, whenever the api_key is empty or a placeholder or
\* the Azure variant lacks endpoint or deployment; for every other input it
\* returns an evaluator holding the one adapter the arguments select.
ConstructionFailsFastOrBuildsOne ==
    pc \in {"constructed", "raised"} =>
        IF BadConstructArguments(req)
        THEN /\ pc = "raised"
             /\ NotNone(logged)
             /\ Val(logged).exc = "ValueError"
             /\ IsNone(evaluator)
             /\ environ = EmptyEnv
        ELSE /\ pc = "constructed"
             /\ NotNone(evaluator)
             /\ Val(evaluator).model.kind = SelectedAdapter(req)

\* The adapter class of each provider.
AdapterOf(provider) ==
    CASE provider = "groq" -> "GroqModel"
      [] provider = "azure-openai" -> "AzureOpenAIModel"
      [] OTHER -> "GPTModel"

\* The environment holds a usable key for the provider it selects (and, for
\* azure-openai, an endpoint and a deployment).
ConfigUsable(env) ==
    /\ SelectedProvider(env) \in {"groq", "openai", "azure-openai"}
    /\ IsNone(ConfigProblem(env))
    /\ SelectedProvider(env) = "groq" =>
          Val(env["GROQ_API_KEY"]) # "your-groq-api-key-here"
    /\ SelectedProvider(env) = "openai" =>
          Val(env["OPENAI_API_KEY"]) # "your-openai-api-key-here"
    /\ SelectedProvider(env) = "azure-openai" =>
          Val(env["AZURE_OPENAI_API_KEY"]) # "your-azure-openai-api-key-here"

\* C14 as stated: for each of the three providers, a usable configuration
\* gives every request that passes the gate an evaluator whose single adapter
\* is that provider's and has generate and the model-name accessor, so that
\* the judge can call generate on it.
AdaptersShareSurface ==
    (PastConstruction /\ ConfigUsable(environ)) =>
        /\ pc # "failed"
        /\ NotNone(evaluator)
        /\ Val(evaluator).model.kind = AdapterOf(SelectedProvider(environ))
        /\ {"generate", "get_model_name"} \subseteq ClassMethods(Val(evaluator).model.kind)

CaseOfRequest ==
    IF NotNone(req.messages)
    THEN [kind |-> "ConversationalTestCase",
          turns |-> [k \in 1..Len(Val(req.messages)) |-> ExpectedTurn(Val(req.messages)[k])],
          input |-> None, actual_output |-> None, retrieval_context |-> None,
          expected_output |-> None, context |-> None]
    ELSE [kind |-> "LLMTestCase", turns |-> <<>>,
          input |-> Some(IF FalsyStr(req.query) THEN "" ELSE Val(req.query)),
          actual_output |-> req.output,
          retrieval_context |-> Some(IF FalsyList(req.context) THEN <<>> ELSE Val(req.context)),
          expected_output |-> req.expected_output,
          context |-> None]

\* The dispatches of the current request that built a case.
Builds == {k \in 1..Len(dispatched) : dispatched[k].built}

\* C16 as amended: no case is built before the loop; each dispatch that gets
\* past its validation builds a case of its own, inside evaluate, from the
\* fields of the request, so that a batch builds as many cases as it has such
\* dispatches and all of them are equal as built; the judge is called only
\* by a dispatch that has built its case, and on that case.
CaseBuiltPerDispatch ==
    /\ pc \in {"idle", "gated", "rejected", "failed"} => IsNone(last_case) /\ dispatched = <<>>
    /\ (pc = "loop" /\ dispatched = <<>>) => IsNone(last_case)
    /\ \A k \in 1..Len(dispatched) :
          LET d == dispatched[k]
          IN  /\ d.built => d.built_case = CaseOfRequest
              /\ d.judged => d.built
              /\ d.judged =>
                    [d.test_case EXCEPT !.context = None] = d.built_case
              /\ ~d.built => d.kind = "ValueError" /\ IsNone(results[k].score)
    /\ Builds # {} => NotNone(last_case)

\* C16 as stated: the case is built once per request, before the first
\* dispatch, and every judge call of the batch is given that one case.
CaseBuiltOncePerRequest ==
    /\ pc \in {"loop", "done"} => NotNone(last_case)
    /\ Cardinality(Builds) <= 1
    /\ \A j, k \in 1..Len(dispatched) :
          (dispatched[j].judged /\ dispatched[k].judged) =>
              dispatched[j].test_case = dispatched[k].test_case

\* C16 witness: a finished batch of two metrics, each of which built a case
\* and had it measured; the two cases are equal as built.
CaseBuiltPerDispatchWitness ==
    /\ pc = "done"
    /\ metrics_to_eval = <<"contextual_precision", "pii_leakage">>
    /\ Builds = {1, 2}
    /\ dispatched[1].judged
    /\ dispatched[2].judged
    /\ dispatched[1].built_case = dispatched[2].built_case

\* The request has the fields the per-metric validation asks for the metric
\* of this (lower-case) name.
FieldsPresent(name) ==
    CASE name \in {"contextual_precision", "contextual_recall"} ->
             ~FalsyStr(req.expected_output) /\ ~FalsyList(req.context)
      [] name = "answer_relevancy" -> ~FalsyStr(req.query)
      [] name = "conversation_completeness" -> ~FalsyList(req.messages)
      [] name = "hallucination" -> ~FalsyList(req.context)
      [] OTHER -> TRUE

\* Position k of the resolved list names a supported metric whose fields are present.
Dispatchable(k) ==
    /\ Lower(metrics_to_eval[k]) \in RegistryNames
    /\ FieldsPresent(Lower(metrics_to_eval[k]))

\* C17 as amended: evaluate is called once per element of the resolved list,
\* and that call makes exactly one judge measure call if the metric is
\* supported, its fields are present and, for pii_leakage, PIILeakageMetric
\* can be imported; it makes none otherwise. A failed judge call is not
\* repeated: the judge calls of a request are as many as its dispatched
\* elements of that kind, never more than the resolved metrics.
JudgeCallsAccounted ==
    /\ Len(dispatched) = Len(results)
    /\ Len(dispatched) <= Len(metrics_to_eval)
    /\ \A k \in 1..Len(dispatched) :
          dispatched[k].judged <=>
              /\ Dispatchable(k)
              /\ Lower(metrics_to_eval[k]) = "pii_leakage" => installed.PIILeakageMetric
    /\ JudgeCalls <= Len(metrics_to_eval)
    /\ pc = "done" =>
          JudgeCalls = Cardinality({k \in 1..Len(metrics_to_eval) :
                                       /\ Dispatchable(k)
                                       /\ Lower(metrics_to_eval[k]) = "pii_leakage"
                                              => installed.PIILeakageMetric})
    /\ pc \in {"idle", "gated", "rejected", "failed"} => JudgeCalls = 0

\* C17 as stated: each element of the resolved list causes exactly one judge
\* call if the metric is supported and its fields are present, none
\* otherwise, and the calls never exceed the resolved metrics.
JudgeCallPerValidMetric ==
    /\ Len(dispatched) = Len(results)
    /\ \A k \in 1..Len(dispatched) : dispatched[k].judged <=> Dispatchable(k)
    /\ JudgeCalls <= Len(metrics_to_eval)

\* C17 witness: a finished batch whose first metric's judge call failed and
\* whose second metric is unsupported: one judge call in all.
JudgeCallsAccountedWitness ==
    /\ pc = "done"
    /\ metrics_to_eval = <<"contextual_precision", "nonsense">>
    /\ dispatched[1].judged
    /\ dispatched[1].kind = "Exception"
    /\ ~dispatched[2].judged
    /\ JudgeCalls = 1

\* C18 as stated: a dispatch that fails before its case is built (an
\* unsupported metric or a missing field) is reported with the validation
\* message as it is; a dispatch that fails afterwards, in the judge library
\* (whatever the type of its exception, a ValueError of the judge and the
\* failed import of PIILeakageMetric included), is reported as
\* "Evaluation failed: " followed by the original message.
FailureKindsDistinct ==
    /\ Len(dispatched) = Len(results)
    /\ \A k \in 1..Len(dispatched) :
          dispatched[k].kind # "ok" =>
              IF dispatched[k].built
              THEN results[k].error = Some("Evaluation failed: " \o dispatched[k].msg)
              ELSE results[k].error = Some(dispatched[k].msg)

\* The one call of evaluate has ended with this validation error, raised
\* before the case was built and before the judge was called.
FailedValidation(message) ==
    /\ pc = "raised"
    /\ logged = Some(Caught("ValueError", message))
    /\ ~dispatched[1].built
    /\ ~dispatched[1].judged
    /\ IsNone(last_case)
    /\ answers = <<>>

NeedsBackfill(k) ==
    /\ IsNone(dispatched[k].built_case.context)
    /\ NotNone(dispatched[k].built_case.retrieval_context)

\* C20: the judge of hallucination is given its case with context set to
\* retrieval_context when the case as built has a retrieval_context and no
\* context; every other metric's judge is given its case exactly as built,
\* and a dispatch that builds a case without calling the judge leaves it as
\* built; no metric other than hallucination is measured on a case with a
\* context, whatever was dispatched before it in the batch.
HallucinationBackfillOnly ==
    \A k \in 1..Len(dispatched) :
        LET d == dispatched[k]
            name == Lower(metrics_to_eval[k])
        IN  /\ d.judged =>
                  IF name = "hallucination" /\ NeedsBackfill(k)
                  THEN /\ d.test_case.context = d.built_case.retrieval_context
                       /\ d.test_case =
                             [d.built_case EXCEPT !.context = d.built_case.retrieval_context]
                  ELSE d.test_case = d.built_case
            /\ (d.built /\ ~d.judged) => d.test_case = d.built_case
            /\ (d.built /\ name # "hallucination") => IsNone(d.test_case.context)

\* C20 witness: "all" on a request with a context: hallucination, fifth, is
\* measured on a case whose context is the request's context, and
\* pii_leakage, sixth, on a case without context.
HallucinationBackfillOnlyWitness ==
    /\ pc = "done"
    /\ Len(dispatched) = 6
    /\ metrics_to_eval[5] = "hallucination"
    /\ metrics_to_eval[6] = "pii_leakage"
    /\ dispatched[5].judged
    /\ dispatched[5].test_case.context = Some(<<"Selenium is a web automation framework.">>)
    /\ dispatched[6].judged
    /\ IsNone(dispatched[6].test_case.context)
    /\ dispatched[6].test_case.retrieval_context = Some(<<"Selenium is a web automation framework.">>)

\* ---------------------------------------------------------------- C21
\* The answers the judge gave to the dispatches made so far, by position.
AnswersGiven == [k \in 1..Len(dispatched) |-> dispatched[k].answer]

\* The results of request r computed from nothing but r, the deepeval
\* installed and the judge's answers by position.
ResultsOf(r, lib, given) ==
    [k \in 1..Len(given) |->
        MetricResultOf(ResolveMetrics(r.metric, r.messages)[k],
                       Evaluate(ResolveMetrics(r.metric, r.messages)[k], r.query, r.context,
                                r.output, r.expected_output, r.messages,
                                lib.PIILeakageMetric, given[k]))]

\* One step of the service, as statelessness allows it.
StatelessStep ==
    /\ environ' = environ
    /\ installed' = installed
    /\ pc' = "gated" => (pc = "idle" /\ IsNone(evaluator'))
    /\ (pc = "gated" /\ pc' # "gated") =>
          /\ IsNone(evaluator)
          /\ evaluator' = init_evaluator_from_env(environ, installed).value
          /\ pc' = "loop" <=> NotNone(evaluator')
          /\ pc' = "failed" <=> IsNone(evaluator')
    /\ (pc \in {"loop", "done"} /\ pc' \in {"loop", "done"}) =>
          (evaluator' = evaluator /\ NotNone(evaluator))
    /\ pc' \in {"idle", "rejected"} => IsNone(evaluator')
    /\ pc' = "idle" =>
          /\ req' = NoRequest
          /\ metrics_to_eval' = <<>>
          /\ results' = <<>>
          /\ dispatched' = <<>>
          /\ answers' = <<>>
          /\ last_case' = None
          /\ response' = None
          /\ logged' = None
    /\ pc' = "done" =>
          /\ Len(dispatched') = Len(ResolveMetrics(req'.metric, req'.messages))
          /\ response' = Some(BuildResponse(ResultsOf(req', installed', AnswersGiven')))

\* C21: handling requests one after another, the service keeps nothing from
\* one to the next. No step changes the process environment or the deepeval
\* installed, the OpenAI construction path writing to OPENAI_API_KEY the value
\* it read there. A request enters the gate with no evaluator; one that
\* passes the gate calls init_evaluator_from_env once, which gives it an
\* evaluator made from the environment alone (or fails the request), and
\* that evaluator is the one it keeps until its response; when the request
\* ends everything made for it is dropped. The response is the one computed
\* from the request, the deepeval installed and the judge's answers.
RequestsStateless == [][StatelessStep]_vars

\* C21 witness: a response built under an OpenAI configuration by an
\* evaluator whose GPTModel took its key from OPENAI_API_KEY, the variable
\* the construction wrote and which still holds the configured key.
RequestsStatelessWitness ==
    /\ pc = "done"
    /\ NotNone(evaluator)
    /\ Val(evaluator).model.kind = "GPTModel"
    /\ Val(evaluator).model.api_key = Some("sk-1")
    /\ environ["OPENAI_API_KEY"] = Some("sk-1")
    /\ IsNone(environ["GROQ_API_KEY"])
    /\ Len(results) = 2
    /\ response = Some(BuildResponse(ResultsOf(req, installed, AnswersGiven)))

\* ---------------------------------------------------------------- C22
\* Every result of response r carries an error and none a score.
AllFailed(r) ==
    /\ Len(r.results) > 0
    /\ \A k \in 1..Len(r.results) :
          NotNone(r.results[k].error) /\ IsNone(r.results[k].score)

\* C22: the legacy field error of every response is null. It is null when
\* every metric of the batch failed, the other legacy fields being null
\* too, and null when the legacy fields show a successful result: its value
\* does not tell the two apart.
LegacyErrorAlwaysNull ==
    NotNone(response) =>
        /\ IsNone(Val(response).error)
        /\ AllFailed(Val(response)) =>
              /\ IsNone(Val(response).metric_name)
              /\ IsNone(Val(response).score)
              /\ IsNone(Val(response).explanation)
        /\ NotNone(Val(response).score) =>
              \E k \in 1..Len(Val(response).results) :
                  /\ Val(response).results[k].score = Val(response).score
                  /\ IsNone(Val(response).results[k].error)

\* C22 witness: the response to a batch of two metrics, one failing its
\* validation and one failing in the judge, with the legacy error null.
LegacyErrorAlwaysNullWitness ==
    /\ pc = "done"
    /\ NotNone(response)
    /\ Len(Val(response).results) = 2
    /\ AllFailed(Val(response))
    /\ ~dispatched[1].judged
    /\ dispatched[2].judged
    /\ IsNone(Val(response).error)

\* ---------------------------------------------------------------- C23
\* The metric field of the request is null, the empty string or the empty list.
EmptySelector ==
    req.metric \in {MetricNone, MetricStr(""), MetricList(<<>>)}

\* C23: the resolved metric list of a request is never empty. A metric field
\* that is null, the empty string or the empty list resolves to the single
\* metric faithfulness; every response carries at least one result; and a
\* request with such a metric field and without output is rejected by the
\* gate with the 400 that names faithfulness.
ResolvedListNeverEmpty ==
    /\ Handling => Len(metrics_to_eval) >= 1
    /\ (Handling /\ EmptySelector) => metrics_to_eval = <<"faithfulness">>
    /\ NotNone(response) =>
          /\ Len(Val(response).results) >= 1
          /\ Len(Val(response).results) = Len(metrics_to_eval)
    /\ (Handling /\ EmptySelector /\ FalsyStr(req.output)) =>
          /\ pc = "rejected"
          /\ status = 400
          /\ detail = Some("output field is required for faithfulness metric")
          /\ IsNone(response)
    /\ (Handling /\ EmptySelector /\ ~FalsyStr(req.output)) => pc # "rejected"

\* C23 witness: a request whose metric field is the empty list has been
\* answered with the one result of faithfulness.
ResolvedListNeverEmptyWitness ==
    /\ pc = "done"
    /\ req.metric = MetricList(<<>>)
    /\ NotNone(response)
    /\ Len(Val(response).results) = 1
    /\ Val(response).results[1].metric_name = "faithfulness"
    /\ dispatched[1].judged

\* ---------------------------------------------------------------- C24
\* Request r with its field provider absent.
WithoutProvider(r) == [r EXCEPT !.provider = None]

====
